---------------------------- MODULE Spec2Model ----------------------------
(***************************************************************************)
(* Conversation Flow Engine of the Templates dashboard component:          *)
(* the flow graph editor (synthesis from templates, node add / delete,     *)
(* import of flow code) and the chat simulator.                            *)
(*                                                                         *)
(* Text is modelled as a sequence of one-character strings, so that        *)
(* toLowerCase, trim, includes and replace are computed, not assumed.      *)
(* An identifier ("template-7", "start-1") is the sequence of its          *)
(* '-'-separated parts (<<"template","7">>); the absent id (null) is <<>>. *)
(* An optional value is a sequence of length 0 or 1.                       *)
(***************************************************************************)
EXTENDS Integers, Sequences, FiniteSets, TLC

VARIABLES
    store,              \* Template Store: the records of the project, in order
    nextDbId,           \* index of the next id the Template Store assigns
    selectedProject,    \* useState<string | null>: id of the selected project
    templates,          \* getCurrentTemplates(): template list of the selected project
    flowState,          \* useState<FlowState>: nodes, connections, selectedNode
    showFlowView,       \* useState(false)
    calls,              \* handler invocations suspended at an await of a store call
    clock,              \* Date.now(), as an index into Timestamps; it advances
                        \* with every user event of the flow editor
    simulationState,    \* useState<SimulationState>
    showChatSimulator,  \* useState(false)
    userInput,          \* useState('')
    timers,             \* callbacks handed to setTimeout(..., 1000), oldest first
    alertMsg,           \* text of the last alert() shown
    authToken,          \* localStorage holds an 'authToken'
    sync,               \* the batch over nodes or templates that is running
    requests,           \* Template Store calls issued by the batch, in order
    codeError,          \* useState(''): error shown in the code view
    projects,           \* Template Store: the projects of the user, in order
    loader,             \* position of loadProjectsFromDatabase (run on mount)
    templateProjects,   \* useState<TemplateProject[]>: ids of the projects loaded
    defaultProjectId    \* useState<string | null>

vars == <<store, nextDbId, selectedProject, templates, flowState, showFlowView,
          calls, clock, simulationState, showChatSimulator, userInput, timers,
          alertMsg, authToken, sync, requests, codeError, projects, loader,
          templateProjects, defaultProjectId>>

flowVars == <<store, nextDbId, selectedProject, templates, flowState,
              showFlowView, calls, clock>>
simVars == <<simulationState, showChatSimulator, userInput, timers>>
syncVars == <<authToken, sync, requests, codeError>>
loadVars == <<projects, loader, templateProjects, defaultProjectId>>

---------------------------------------------------------------------------
(* Bounds of the model *)

MaxTemplates == 2   \* longest template list explored
MaxChat == 6        \* longest chat transcript explored
MaxClock == 4       \* the flow editor is explored for this many user events
MaxCalls == 1       \* most store calls in flight at once
MaxBatches == 2     \* reconciliation and saving are explored for this many user events

---------------------------------------------------------------------------
(* Text *)

Null == <<>>

UpperLetters ==
    <<"A","B","C","D","E","F","G","H","I","J","K","L","M",
      "N","O","P","Q","R","S","T","U","V","W","X","Y","Z">>

LowerLetters ==
    <<"a","b","c","d","e","f","g","h","i","j","k","l","m",
      "n","o","p","q","r","s","t","u","v","w","x","y","z">>

ToLowerChar(c) ==
    IF \E i \in 1..Len(UpperLetters) : UpperLetters[i] = c
    THEN LowerLetters[CHOOSE i \in 1..Len(UpperLetters) : UpperLetters[i] = c]
    ELSE c

\* String.prototype.toLowerCase
ToLowerCase(s) == [i \in 1..Len(s) |-> ToLowerChar(s[i])]

\* String.prototype.includes
Includes(s, sub) ==
    \E i \in 0..(Len(s) - Len(sub)) : SubSeq(s, i + 1, i + Len(sub)) = sub

RECURSIVE TrimStart(_)
TrimStart(s) ==
    IF s # <<>> /\ Head(s) = " " THEN TrimStart(Tail(s)) ELSE s

RECURSIVE TrimEnd(_)
TrimEnd(s) ==
    IF s # <<>> /\ s[Len(s)] = " " THEN TrimEnd(SubSeq(s, 1, Len(s) - 1)) ELSE s

\* String.prototype.trim
Trim(s) == TrimEnd(TrimStart(s))

NamePlaceholder == <<"{","n","a","m","e","}">>
SimulatedName == <<"U","s","u","a","r","i","o">>

\* Mutation of ReplaceName: replaces the first occurrence only
\* (what replace('{name}', ...) without the g flag would do).
RECURSIVE ReplaceFirstName(_)
ReplaceFirstName(s) ==
    IF s = <<>> THEN <<>>
    ELSE IF Len(s) >= Len(NamePlaceholder)
            /\ SubSeq(s, 1, Len(NamePlaceholder)) = NamePlaceholder
         THEN SimulatedName \o SubSeq(s, Len(NamePlaceholder) + 1, Len(s))
         ELSE <<Head(s)>> \o ReplaceFirstName(Tail(s))

\* response.replace(/{name}/g, 'Usuário')
RECURSIVE ReplaceName(_)
ReplaceName(s) ==
    IF s = <<>> THEN <<>>
    ELSE IF Len(s) >= Len(NamePlaceholder)
            /\ SubSeq(s, 1, Len(NamePlaceholder)) = NamePlaceholder
         THEN SimulatedName
              \o ReplaceName(SubSeq(s, Len(NamePlaceholder) + 1, Len(s)))
         ELSE <<Head(s)>> \o ReplaceName(Tail(s))

\* Array.prototype.find: the first element whose test holds, if any.
\* test[i] is the callback's result on seq[i].
FindFirst(seq, test) ==
    LET scan[i \in 1..(Len(seq) + 1)] ==
            IF i > Len(seq) THEN <<>>
            ELSE IF test[i] THEN <<seq[i]>>
            ELSE scan[i + 1]
    IN  scan[1]

\* Array.prototype.filter
Filter(seq, test) ==
    LET keep[i \in 0..Len(seq)] ==
            IF i = 0 THEN <<>>
            ELSE IF test[i] THEN Append(keep[i - 1], seq[i])
            ELSE keep[i - 1]
    IN  keep[Len(seq)]

\* Array.prototype.some over the strings of a list
SomeIn(seq, set) == \E i \in 1..Len(seq) : seq[i] \in set

Range(seq) == {seq[i] : i \in 1..Len(seq)}

---------------------------------------------------------------------------
(* Templates (interface AutoTemplate: id, trigger, response, active) *)

AutoTemplate(id, trigger, response, active) ==
    [id |-> id, trigger |-> trigger, response |-> response, active |-> active]

\* Templates the simulator is explored with.
TplGreeting ==
    AutoTemplate(<<"1">>, << <<"o","i">> >>,
                 <<"H","i"," ","{","n","a","m","e","}">>, TRUE)
TplOption ==
    AutoTemplate(<<"2">>, << <<"1">>, <<"I">> >>,
                 <<"{","n","a","m","e","}","{","n","a","m","e","}">>, TRUE)
TplInactive ==
    AutoTemplate(<<"3">>, << <<"O","i">> >>, <<"o","f","f">>, FALSE)

SimTemplatePool == {TplGreeting, TplOption, TplInactive}

\* Every list of at most n distinct templates of the pool
RECURSIVE ListsUpTo(_, _)
ListsUpTo(pool, n) ==
    IF n = 0 THEN {<<>>}
    ELSE LET shorter == ListsUpTo(pool, n - 1)
         IN  shorter \cup
             UNION {{Append(l, t) : t \in pool \ Range(l)} : l \in shorter}

---------------------------------------------------------------------------
(* Flow graph (interfaces FlowNode, FlowConnection, FlowState) *)

\* data.triggers and data.active are optional: <<>> when absent, <<value>>
\* when present.  data.response absent and '' are both the empty text (the
\* code reads it only through ||).  position is layout only and left out.
FlowNode(id, type, title, triggers, response, active, connections) ==
    [id |-> id, type |-> type, title |-> title, triggers |-> triggers,
     response |-> response, active |-> active, connections |-> connections]

\* id: `${source}-${target}`
FlowConnection(source, target) ==
    [id |-> source \o target, source |-> source, target |-> target]

\* useState<FlowState>({ nodes: [], connections: [], selectedNode: null, ... })
InitialFlowState == [nodes |-> <<>>, connections |-> <<>>, selectedNode |-> Null]

---------------------------------------------------------------------------
(* Synthesis of the flow graph from a template list *)

GreetingVocabulary ==
    { <<"o","i">>, <<"o","l","á">>, <<"m","e","n","u">>, <<"d","i","a">>,
      <<"t","a","r","d","e">>, <<"n","o","i","t","e">>,
      <<"b","o","m"," ","d","i","a">>, <<"b","o","a"," ","t","a","r","d","e">>,
      <<"b","o","a"," ","n","o","i","t","e">> }

OptionDigits == << <<"1">>, <<"2">>, <<"3">>, <<"4">>, <<"5">> >>

ComprarWords ==
    { <<"c","o","m","p","r","a","r">>, <<"p","a","s","s","a","g","e","m">>,
      <<"b","i","l","h","e","t","e">> }
HorarioWords ==
    { <<"h","o","r","á","r","i","o","s">>, <<"h","o","r","a","r","i","o">>,
      <<"h","o","r","a">> }
OperadorWords ==
    { <<"o","p","e","r","a","d","o","r">>, <<"a","t","e","n","d","e","n","t","e">>,
      <<"h","u","m","a","n","o">>, <<"p","e","s","s","o","a">> }
ComprarOptionWords ==
    { <<"c","o","m","p","r","a","r">>, <<"p","a","s","s","a","g","e","m">>, <<"1">> }
HumanOptionWords == OperadorWords \cup { <<"3">> }

TokenCidade == <<"C","I","D","A","D","E","_">>
TokenDisponivel == <<"_","D","I","S","P","O","N","I","V","E","L">>
TokenNaoDisponivel == <<"_","N","A","O","_","D","I","S","P","O","N","I","V","E","L">>
TokenCidadeDisponivel == <<"C","I","D","A","D","E">> \o TokenDisponivel
TokenCidadeNaoDisponivel == <<"C","I","D","A","D","E">> \o TokenNaoDisponivel

\* trigger.some(t => [...words].includes(t.toLowerCase()))
SomeLowerIn(trigger, words) ==
    \E i \in 1..Len(trigger) : ToLowerCase(trigger[i]) \in words

\* trigger.some(t => t.includes(token))
SomeIncludes(trigger, token) ==
    \E i \in 1..Len(trigger) : Includes(trigger[i], token)

IsGreeting(tpl) == SomeLowerIn(tpl.trigger, GreetingVocabulary)

IsMenuOption(tpl) == SomeIn(tpl.trigger, Range(OptionDigits)) /\ ~IsGreeting(tpl)

IsSpecial(tpl) ==
    \/ SomeIncludes(tpl.trigger, TokenCidade)
    \/ SomeIncludes(tpl.trigger, TokenDisponivel)
    \/ SomeIncludes(tpl.trigger, TokenNaoDisponivel)

\* trigger.find(t => ['1','2','3','4','5'].includes(t)): the digit as text
OptionDigit(tpl) ==
    FindFirst(tpl.trigger,
              [i \in 1..Len(tpl.trigger) |-> tpl.trigger[i] \in Range(OptionDigits)])

\* parseInt(trigger.find(...) || '0')
OptionNumber(tpl) ==
    IF OptionDigit(tpl) = <<>> THEN 0
    ELSE CHOOSE n \in 1..Len(OptionDigits) : OptionDigits[n] = OptionDigit(tpl)[1]

\* .sort((a, b) => aNum - bNum): a stable sort by option number
RECURSIVE SortFrom(_, _)
SortFrom(options, n) ==
    IF n > Len(OptionDigits) THEN <<>>
    ELSE Filter(options, [i \in 1..Len(options) |-> OptionNumber(options[i]) = n])
         \o SortFrom(options, n + 1)

MenuOptions(tpls) ==
    SortFrom(Filter(tpls, [i \in 1..Len(tpls) |-> IsMenuOption(tpls[i])]), 1)

SpecialTemplates(tpls) == Filter(tpls, [i \in 1..Len(tpls) |-> IsSpecial(tpls[i])])

TemplateNodeId(tpl) == <<"template">> \o tpl.id

StartNodeId == <<"start", "1">>
EndNodeId == <<"end", "1">>

OptionTitle(option) ==
    <<"Opcao ">> \o OptionDigit(option)[1] \o
    ( IF SomeLowerIn(option.trigger, ComprarWords) THEN <<" - Comprar Passagem">>
      ELSE IF SomeLowerIn(option.trigger, HorarioWords) THEN <<" - Ver Horarios">>
      ELSE IF SomeLowerIn(option.trigger, OperadorWords)
           THEN <<" - Falar com Operador">>
      ELSE <<>> )

SpecialTitle(tpl) ==
    IF SomeIncludes(tpl.trigger, TokenCidadeDisponivel) THEN <<"Cidade Disponivel">>
    ELSE IF SomeIncludes(tpl.trigger, TokenCidadeNaoDisponivel)
         THEN <<"Cidade Nao Disponivel">>
    ELSE <<"Template Especial">>

TemplateNode(tpl, type, title) ==
    FlowNode(TemplateNodeId(tpl), type, title,
             <<tpl.trigger>>, tpl.response, <<tpl.active>>, <<>>)

\* Index of the first node with the id (nodes.find / nodes.findIndex), 0 if none
FirstIndex(nodes, id) ==
    IF \E i \in 1..Len(nodes) : nodes[i].id = id
    THEN CHOOSE i \in 1..Len(nodes) :
             nodes[i].id = id /\ \A j \in 1..(i - 1) : nodes[j].id # id
    ELSE 0

\* node.connections.push(target) on the first node with the id, if any
PushConnection(nodes, id, target) ==
    IF FirstIndex(nodes, id) = 0 THEN nodes
    ELSE [nodes EXCEPT ![FirstIndex(nodes, id)].connections = Append(@, target)]

\* The leaf pass: every node without outgoing ids, other than start, end and
\* human nodes, gets end-1 pushed
ConnectLeaves(nodes) ==
    [i \in 1..Len(nodes) |->
        IF /\ nodes[i].connections = <<>>
           /\ nodes[i].id # EndNodeId
           /\ nodes[i].id # StartNodeId
           /\ nodes[i].type # "human"
        THEN [nodes[i] EXCEPT !.connections = <<EndNodeId>>]
        ELSE nodes[i]]

LeafConnections(nodes) ==
    LET leaves == Filter(nodes,
                         [i \in 1..Len(nodes) |->
                             /\ nodes[i].connections = <<>>
                             /\ nodes[i].id # EndNodeId
                             /\ nodes[i].id # StartNodeId
                             /\ nodes[i].type # "human"])
    IN  [i \in 1..Len(leaves) |-> FlowConnection(leaves[i].id, EndNodeId)]

\* convertTemplatesToFlow
ConvertTemplatesToFlow(tpls) ==
    LET welcomeTpl == FindFirst(tpls, [i \in 1..Len(tpls) |-> IsGreeting(tpls[i])])
        menuOptions == MenuOptions(tpls)
        specialTemplates == SpecialTemplates(tpls)
        comprarOption ==
            FindFirst(menuOptions,
                      [i \in 1..Len(menuOptions) |->
                          SomeLowerIn(menuOptions[i].trigger, ComprarOptionWords)])
        humanTpl ==
            FindFirst(menuOptions,
                      [i \in 1..Len(menuOptions) |->
                          SomeLowerIn(menuOptions[i].trigger, HumanOptionWords)])
        welcomeId == TemplateNodeId(welcomeTpl[1])
        optionIds == [i \in 1..Len(menuOptions) |-> TemplateNodeId(menuOptions[i])]
        specialIds ==
            [i \in 1..Len(specialTemplates) |-> TemplateNodeId(specialTemplates[i])]
        startNode ==
            FlowNode(StartNodeId, "start", <<"Inicio">>, <<>>, <<>>, <<>>,
                     IF welcomeTpl # <<>> THEN <<welcomeId>> ELSE <<>>)
        welcomeNodes ==
            IF welcomeTpl = <<>> THEN <<>>
            ELSE << [TemplateNode(welcomeTpl[1], "message", <<"Boas-vindas">>)
                        EXCEPT !.connections = optionIds] >>
        optionNodes ==
            [i \in 1..Len(menuOptions) |->
                TemplateNode(menuOptions[i], "message", OptionTitle(menuOptions[i]))]
        specialNodes ==
            [i \in 1..Len(specialTemplates) |->
                TemplateNode(specialTemplates[i], "condition",
                             SpecialTitle(specialTemplates[i]))]
        \* nodes after the k-th special template has been handled
        withSpecials[k \in 0..Len(specialTemplates)] ==
            IF k = 0 THEN <<startNode>> \o welcomeNodes \o optionNodes
            ELSE LET pushed == Append(withSpecials[k - 1], specialNodes[k])
                 IN  IF comprarOption = <<>> THEN pushed
                     ELSE PushConnection(pushed, TemplateNodeId(comprarOption[1]),
                                         specialIds[k])
        built == withSpecials[Len(specialTemplates)]
        humanIndex ==
            IF humanTpl = <<>> THEN 0
            ELSE FirstIndex(built, TemplateNodeId(humanTpl[1]))
        retyped ==
            IF humanIndex = 0 THEN built
            ELSE [built EXCEPT ![humanIndex].type = "human",
                               ![humanIndex].title = <<"Atendimento Humano">>]
        endNode == FlowNode(EndNodeId, "end", <<"Fim">>, <<>>, <<>>, <<>>, <<>>)
        beforeLeaves == Append(retyped, endNode)
        connections ==
            (IF welcomeTpl # <<>>
             THEN <<FlowConnection(StartNodeId, welcomeId)>> \o
                  [i \in 1..Len(optionIds) |-> FlowConnection(welcomeId, optionIds[i])]
             ELSE <<>>)
            \o (IF comprarOption # <<>>
                THEN [i \in 1..Len(specialIds) |->
                         FlowConnection(TemplateNodeId(comprarOption[1]), specialIds[i])]
                ELSE <<>>)
            \o LeafConnections(beforeLeaves)
    IN  [nodes |-> ConnectLeaves(beforeLeaves), connections |-> connections]

---------------------------------------------------------------------------
(* Flow editor *)

\* Ids the Template Store assigns (auto-increment), as text
ProjectDbIds == <<"1", "2", "3">>

DbIds == ProjectDbIds \o <<"4", "5", "6", "7", "8", "9">>

\* Index in DbIds of the id the store gives the next template it creates
FirstFreeDbId == Len(ProjectDbIds) + 1

\* Date.now() values, as text.  Two user events never fall into the same
\* millisecond.
Timestamps ==
    <<"1700000000001", "1700000000002", "1700000000003", "1700000000004",
      "1700000000005", "1700000000006", "1700000000007", "1700000000008">>

DateNow == Timestamps[clock]

\* !isNaN(Number(x)) && Number(x) > 0 for an id given by its '-'-separated parts
IsPositiveNumber(id) ==
    Len(id) = 1 /\ id[1] \in Range(DbIds) \cup Range(Timestamps)

ProjectSelected == selectedProject # Null /\ selectedProject # <<"default">>

NodeIds(flow) == {flow.nodes[i].id : i \in 1..Len(flow.nodes)}

\* The useEffect on [showFlowView, autoTemplates, templateProjects, ...]:
\* the graph is replaced by the synthesis when the view is open and the
\* template list is not empty
RebuildFlow(show, tpls, flow) ==
    IF show /\ Len(tpls) > 0
    THEN [flow EXCEPT !.nodes = ConvertTemplatesToFlow(tpls).nodes,
                      !.connections = ConvertTemplatesToFlow(tpls).connections]
    ELSE flow

\* The "Ver Fluxo" / "Ocultar Fluxo" button, and the effect that follows
ToggleFlowView ==
    /\ clock <= MaxClock
    /\ clock' = clock + 1
    /\ showFlowView' = ~showFlowView
    /\ flowState' = RebuildFlow(showFlowView', templates, flowState)
    /\ UNCHANGED <<store, nextDbId, selectedProject, templates, calls, simVars,
                   alertMsg>>
    /\ UNCHANGED <<syncVars, loadVars>>

\* getDefaultNodeData
DefaultNode(id, type) ==
    CASE type = "start" -> FlowNode(id, type, <<"Inicio">>, <<>>, <<>>, <<>>, <<>>)
      [] type = "message" ->
             FlowNode(id, type, <<"Novo Template">>, << << <<>> >> >>, <<>>,
                      <<TRUE>>, <<>>)
      [] type = "condition" -> FlowNode(id, type, <<"Condicao">>, <<>>, <<>>, <<>>, <<>>)
      [] type = "options" -> FlowNode(id, type, <<"Opcoes">>, <<>>, <<>>, <<>>, <<>>)
      [] type = "human" ->
             FlowNode(id, type, <<"Atendimento Humano">>, <<>>, <<>>, <<>>, <<>>)
      [] type = "end" -> FlowNode(id, type, <<"Fim">>, <<>>, <<>>, <<>>, <<>>)

\* The node kinds of the "add node" palette
PaletteTypes == {"message", "condition", "options", "human", "end"}

\* setFlowState(prev => ({...prev, nodes: [...prev.nodes, newNode],
\*                        selectedNode: newNode.id}))
WithNodeAdded(flow, node) ==
    [flow EXCEPT !.nodes = Append(@, node), !.selectedNode = node.id]

\* The template addFlowNode creates for a new message node
NewNodeTemplate(nodeId) ==
    AutoTemplate(nodeId, << <<"n","o","v","o">> >>,
                 <<"Nova resposta automatica">>, TRUE)

\* addFlowNode, up to its await of createAutoTemplateInDatabase (message
\* node with a project selected), or to its end (otherwise)
AddFlowNode(type) ==
    /\ showFlowView
    /\ clock <= MaxClock
    /\ clock' = clock + 1
    /\ LET newNode == DefaultNode(<<type, DateNow>>, type)
       IN  IF type = "message" /\ ProjectSelected
           THEN /\ Len(calls) < MaxCalls
                /\ calls' = Append(calls, [kind |-> "add", node |-> newNode,
                                           templateId |-> <<>>])
                /\ UNCHANGED flowState
           ELSE /\ flowState' = WithNodeAdded(flowState, newNode)
                /\ UNCHANGED calls
    /\ UNCHANGED <<store, nextDbId, selectedProject, templates, showFlowView,
                   simVars, alertMsg>>
    /\ UNCHANGED <<syncVars, loadVars>>

RemoveAt(seq, i) == SubSeq(seq, 1, i - 1) \o SubSeq(seq, i + 1, Len(seq))

\* addFlowNode resumes: the store created the template and assigned its id
AddFlowNodeCreated(c) ==
    /\ calls[c].kind = "add"
    /\ LET dbId == <<DbIds[nextDbId]>>
           created == [NewNodeTemplate(dbId) EXCEPT !.id = dbId]
           newNode == [calls[c].node EXCEPT
                          !.id = <<"template">> \o dbId,
                          !.triggers = <<created.trigger>>,
                          !.response = created.response,
                          !.active = <<created.active>>]
       IN  /\ store' = Append(store, created)
           /\ flowState' = WithNodeAdded(flowState, newNode)
    /\ nextDbId' = nextDbId + 1
    /\ calls' = RemoveAt(calls, c)
    /\ UNCHANGED <<selectedProject, templates, showFlowView, clock, simVars,
                   alertMsg>>
    /\ UNCHANGED <<syncVars, loadVars>>

\* addFlowNode resumes: the store call failed; the node is added locally
AddFlowNodeCreateFails(c) ==
    /\ calls[c].kind = "add"
    /\ alertMsg' = "Erro ao criar novo template. Sera criado apenas localmente."
    /\ flowState' = WithNodeAdded(flowState, calls[c].node)
    /\ calls' = RemoveAt(calls, c)
    /\ UNCHANGED <<store, nextDbId, selectedProject, templates, showFlowView,
                   clock, simVars>>
    /\ UNCHANGED <<syncVars, loadVars>>

\* The template id deleteFlowNode extracts from the node id
ExtractTemplateId(nodeId) ==
    IF Len(nodeId) > 1 /\ Head(nodeId) = "template" THEN Tail(nodeId)
    ELSE IF Len(nodeId) > 1 THEN <<nodeId[Len(nodeId)]>>
    ELSE nodeId

\* The first setFlowState of deleteFlowNode
WithNodeRemoved(flow, nodeId) ==
    [nodes |-> Filter(flow.nodes,
                      [i \in 1..Len(flow.nodes) |-> flow.nodes[i].id # nodeId]),
     connections |->
         Filter(flow.connections,
                [i \in 1..Len(flow.connections) |->
                    /\ flow.connections[i].source # nodeId
                    /\ flow.connections[i].target # nodeId]),
     selectedNode |-> IF flow.selectedNode = nodeId THEN Null ELSE flow.selectedNode]

\* Whether deleteFlowNode(nodeId) calls the Template Store
DeleteCallsStore(nodeId) ==
    ProjectSelected /\ IsPositiveNumber(ExtractTemplateId(nodeId))

\* deleteFlowNode (the delete button of node i), up to its await of
\* deleteAutoTemplateFromDatabase, or to its end when no store call is made
\* The field before of the suspended call is bookkeeping of the model only:
\* the graph as it was when the handler began; no code reads it.
DeleteFlowNode(i) ==
    /\ showFlowView
    /\ i \in 1..Len(flowState.nodes)
    /\ clock <= MaxClock
    /\ clock' = clock + 1
    /\ LET nodeToDelete == flowState.nodes[i]
       IN  /\ flowState' = WithNodeRemoved(flowState, nodeToDelete.id)
           /\ IF DeleteCallsStore(nodeToDelete.id)
              THEN /\ Len(calls) < MaxCalls
                   /\ calls' = Append(calls,
                                      [kind |-> "delete", node |-> nodeToDelete,
                                       templateId |->
                                           ExtractTemplateId(nodeToDelete.id),
                                       before |-> flowState])
              ELSE UNCHANGED calls
    /\ UNCHANGED <<store, nextDbId, selectedProject, templates, showFlowView,
                   simVars, alertMsg>>
    /\ UNCHANGED <<syncVars, loadVars>>

\* DELETE /messages/{id} on the store
StoreWithout(records, id) ==
    Filter(records, [i \in 1..Len(records) |-> records[i].id # id])

\* deleteFlowNode resumes: DELETE succeeded; loadProjectTemplates reloads the
\* list (reloaded) or fails silently, and the rebuild effect follows a reload
DeleteFlowNodeDeleted(c, reloaded) ==
    /\ calls[c].kind = "delete"
    /\ store' = StoreWithout(store, calls[c].templateId)
    /\ templates' = IF reloaded THEN store' ELSE templates
    /\ flowState' = IF reloaded
                    THEN RebuildFlow(showFlowView, templates', flowState)
                    ELSE flowState
    /\ calls' = RemoveAt(calls, c)
    /\ UNCHANGED <<nextDbId, selectedProject, showFlowView, clock, simVars,
                   alertMsg>>
    /\ UNCHANGED <<syncVars, loadVars>>

\* The rollback of deleteFlowNode
WithNodeRestored(flow, node) == [flow EXCEPT !.nodes = Append(@, node)]

\* deleteFlowNode resumes: the store call failed; alert and rollback
DeleteFlowNodeFails(c) ==
    /\ calls[c].kind = "delete"
    /\ alertMsg' = "Erro ao excluir template do banco de dados"
    /\ flowState' = WithNodeRestored(flowState, calls[c].node)
    /\ calls' = RemoveAt(calls, c)
    /\ UNCHANGED <<store, nextDbId, selectedProject, templates, showFlowView,
                   clock, simVars>>
    /\ UNCHANGED <<syncVars, loadVars>>

\* Flow code (the text of the code view or of an imported file) as parsed by
\* JSON.parse: parses is FALSE for text that is no JSON; nodes and
\* connections are <<>> when the property is missing or no array, <<array>>
\* otherwise.
FlowCode(parses, nodes, connections) ==
    [parses |-> parses, nodes |-> nodes, connections |-> connections]

\* Mutation of ConvertCodeToFlow: a missing nodes or connections property
\* counts as an empty array
ConvertCodeToFlowLenient(code) ==
    IF ~code.parses THEN <<>>
    ELSE << [nodes |-> IF code.nodes = <<>> THEN <<>> ELSE code.nodes[1],
             connections |-> IF code.connections = <<>> THEN <<>>
                             ELSE code.connections[1]] >>

\* convertCodeToFlow: <<>> for null
ConvertCodeToFlow(code) ==
    IF ~code.parses \/ code.nodes = <<>> \/ code.connections = <<>> THEN <<>>
    ELSE << [nodes |->
                 [i \in 1..Len(code.nodes[1]) |->
                     [code.nodes[1][i] EXCEPT
                         !.id = IF @ = <<>> THEN <<"node", DateNow>> ELSE @,
                         !.type = IF @ = "" THEN "message" ELSE @]],
             connections |-> code.connections[1]] >>

\* Flow code a user may import: a graph whose message node is built on
\* template 1, and a graph with a connection to a node it does not hold
CodeTemplateOne ==
    FlowCode(TRUE,
             << << FlowNode(StartNodeId, "start", <<"Inicio">>, <<>>, <<>>, <<>>,
                            << <<"template", "1">> >>),
                   FlowNode(<<"template", "1">>, "message", <<"Boas-vindas">>,
                            << << <<"o","i">> >> >>, <<"H","i">>, <<TRUE>>, <<>>) >> >>,
             << << FlowConnection(StartNodeId, <<"template", "1">>) >> >>)
CodeDangling ==
    FlowCode(TRUE,
             << << FlowNode(StartNodeId, "start", <<"Inicio">>, <<>>, <<>>, <<>>,
                            << <<"boas", "vindas">> >>) >> >>,
             << << FlowConnection(StartNodeId, <<"boas", "vindas">>) >> >>)


\* Text that is no JSON; the document {"nodes": "not-an-array",
\* "connections": []}; and a document without the connections property
CodeNotJson == FlowCode(FALSE, <<>>, <<>>)
CodeNodesNotArray == FlowCode(TRUE, <<>>, << <<>> >>)
CodeNoConnections ==
    FlowCode(TRUE,
             << << FlowNode(StartNodeId, "start", <<"Inicio">>, <<>>, <<>>, <<>>,
                            <<>>) >> >>,
             <<>>)

InvalidCodes == {CodeNotJson, CodeNodesNotArray, CodeNoConnections}

FlowCodes == {CodeTemplateOne, CodeDangling} \cup InvalidCodes

\* importFlowCode (reader.onload)
ImportFlowCode(code) ==
    /\ showFlowView
    /\ clock <= MaxClock
    /\ clock' = clock + 1
    /\ LET result == ConvertCodeToFlow(code)
       IN  IF result # <<>>
           THEN /\ flowState' = [flowState EXCEPT
                                    !.nodes = result[1].nodes,
                                    !.connections = result[1].connections]
                /\ alertMsg' = "Fluxo importado com sucesso!"
           ELSE /\ alertMsg' = "Erro ao importar fluxo."
                /\ UNCHANGED flowState
    /\ UNCHANGED <<store, nextDbId, selectedProject, templates, showFlowView,
                   calls, simVars>>
    /\ UNCHANGED <<syncVars, loadVars>>

\* Templates of the project the editor is explored with
TplWelcome ==
    AutoTemplate(<<"1">>, << <<"o","i">> >>, <<"H","i">>, TRUE)
TplComprar ==
    AutoTemplate(<<"2">>, << <<"1">>, <<"c","o","m","p","r","a","r">> >>,
                 <<"b","u","y">>, TRUE)
TplCidade ==
    AutoTemplate(<<"3">>, << TokenCidadeDisponivel >>, <<"o","k">>, TRUE)

FlowTemplateLists ==
    { <<TplWelcome>>, <<TplWelcome, TplComprar>>, <<TplComprar, TplCidade>> }

---------------------------------------------------------------------------
(* Reconciliation and saving: batches of Template Store calls *)

\* No batch is running
NoBatch ==
    [kind |-> "none", items |-> <<>>, next |-> 1, existing |-> <<>>,
     project |-> Null, phase |-> "loop", pending |-> FALSE]

\* A Template Store call (fetch) and the status of its response
Request(method, id, body) ==
    [method |-> method, id |-> id, body |-> body, status |-> "pending"]

Statuses == {"ok", "401", "fail"}

\* !isNaN(Number(id)) for an id given by its '-'-separated parts
IsNumeric(id) ==
    Len(id) = 1 /\ id[1] \in Range(DbIds) \cup Range(Timestamps)

\* node.id.replace('template-', ''): the first 'template-' is removed
StripTemplatePrefix(id) ==
    IF \E i \in 1..(Len(id) - 1) : id[i] = "template"
    THEN LET i == CHOOSE i \in 1..(Len(id) - 1) :
                      /\ id[i] = "template"
                      /\ \A j \in 1..(i - 1) : id[j] # "template"
         IN  RemoveAt(id, i)
    ELSE id

\* Array.isArray(node.data.triggers) && Array.isArray(t.trigger) &&
\* node.data.triggers.some(trigger => t.trigger.includes(trigger))
SharesTrigger(node, t) ==
    /\ node.triggers # <<>>
    /\ \E k \in 1..Len(node.triggers[1]) : node.triggers[1][k] \in Range(t.trigger)

\* Mutation of ResolveExisting: resolves by id only
ResolveExistingByIdOnly(node, existing) ==
    FindFirst(existing,
              [i \in 1..Len(existing) |->
                  existing[i].id = StripTemplatePrefix(node.id)])

\* existingTemplates.find(t => t.id === nodeIdMatch || (... triggers overlap))
ResolveExisting(node, existing) ==
    FindFirst(existing,
              [i \in 1..Len(existing) |->
                  \/ existing[i].id = StripTemplatePrefix(node.id)
                  \/ SharesTrigger(node, existing[i])])

\* node.data.response || node.data.title || fallback
NodeResponse(node, fallback) ==
    IF node.response # <<>> THEN node.response
    ELSE IF node.title # <<>> THEN node.title
    ELSE fallback

\* The template convertFlowNodesToTemplates sends to update existingTemplate
UpdatedTemplate(existingTemplate, node) ==
    [id |-> existingTemplate.id,
     trigger |-> IF node.triggers # <<>> THEN node.triggers[1]
                 ELSE existingTemplate.trigger,
     response |-> NodeResponse(node, existingTemplate.response),
     active |-> node.active # <<FALSE>>]

\* The template convertFlowNodesToTemplates sends to create
CreatedTemplate(node) ==
    [id |-> <<"temp", DateNow, "0">>,
     trigger |-> IF node.triggers # <<>> THEN node.triggers[1]
                 ELSE << <<"d","e","f","a","u","l","t">> >>,
     response |-> NodeResponse(node, <<"Resposta padrao">>),
     active |-> node.active # <<FALSE>>]

\* projectToUse of convertFlowNodesToTemplates; Null when it gives up
ProjectToUse ==
    IF ProjectSelected THEN selectedProject
    ELSE IF Len(templates) > 0 THEN <<"1">>
    ELSE Null

\* Mutation of HandleAuthError: the token survives a 401
HandleAuthErrorKeepsToken(status) == authToken

\* handleAuthError: a 401 removes the token from localStorage
HandleAuthError(status) == IF status = "401" THEN FALSE ELSE authToken

\* PUT /messages/{id} on the store
StoreWith(records, template) ==
    [i \in 1..Len(records) |->
        IF records[i].id = template.id THEN template ELSE records[i]]

\* The template addHumanIntervention adds to the list
HumanTemplate ==
    AutoTemplate(<<"human", DateNow>>,
                 << <<"f","a","l","a","r"," ","c","o","m"," ","h","u","m","a","n","o">>,
                    <<"a","t","e","n","d","e","n","t","e">>,
                    <<"s","u","p","o","r","t","e"," ","h","u","m","a","n","o">>,
                    <<"p","e","s","s","o","a"," ","r","e","a","l">>,
                    <<"o","p","e","r","a","d","o","r">> >>,
                 <<"[human]">>, TRUE)

\* The "Intervencao Humana" button, and the rebuild effect that follows
AddHumanIntervention ==
    /\ clock <= MaxBatches
    /\ clock' = clock + 1
    /\ templates' = Append(templates, HumanTemplate)
    /\ flowState' = RebuildFlow(showFlowView, templates', flowState)
    /\ UNCHANGED <<store, nextDbId, selectedProject, showFlowView, calls,
                   simVars, alertMsg, syncVars, loadVars>>

\* Flow code a user may apply: a message node with a fresh id whose trigger
\* '1' is a trigger of template 2; a node built on template 2 whose trigger
\* 'oi' is a trigger of template 1; two new nodes with the same new trigger
CodeOverlap ==
    FlowCode(TRUE,
             << << FlowNode(StartNodeId, "start", <<"Inicio">>, <<>>, <<>>, <<>>,
                            <<>>),
                   FlowNode(<<"message", "a">>, "message", <<"Compra">>,
                            << << <<"1">> >> >>, <<"b","u","y">>, <<TRUE>>, <<>>) >> >>,
             << <<>> >>)
CodeIdAndTrigger ==
    FlowCode(TRUE,
             << << FlowNode(<<"template", "2">>, "message", <<"Compra">>,
                            << << <<"o","i">> >> >>, <<"b","u","y">>, <<TRUE>>, <<>>) >> >>,
             << <<>> >>)
CodeSharedNew ==
    FlowCode(TRUE,
             << << FlowNode(<<"message", "a">>, "message", <<"Novo">>,
                            << << <<"n","o","v","o">> >> >>, <<"n","e","w">>, <<TRUE>>, <<>>),
                   FlowNode(<<"message", "b">>, "human", <<"Novo">>,
                            << << <<"n","o","v","o">> >> >>, <<>>, <<FALSE>>, <<>>) >> >>,
             << <<>> >>)

\* A node built on template 1 whose trigger list was emptied in the node
\* editor, followed by a new node with the trigger 'oi' of template 1
CodeEmptyAndOverlap ==
    FlowCode(TRUE,
             << << FlowNode(<<"template", "1">>, "message", <<"Boas-vindas">>,
                            << <<>> >>, <<"H","i">>, <<TRUE>>, <<>>),
                   FlowNode(<<"message", "c">>, "message", <<"Ola">>,
                            << << <<"o","i">> >> >>, <<"z">>, <<TRUE>>, <<>>) >> >>,
             << <<>> >>)

SyncCodes ==
    InvalidCodes \cup {CodeOverlap, CodeIdAndTrigger, CodeSharedNew,
                       CodeEmptyAndOverlap}

\* applyCodeChanges, up to the first await of convertFlowNodesToTemplates;
\* shouldSave is the answer to its confirm()
ApplyCodeChanges(code, shouldSave) ==
    /\ showFlowView
    /\ sync.kind = "none"
    /\ clock <= MaxBatches
    /\ clock' = clock + 1
    /\ LET result == ConvertCodeToFlow(code)
       IN  IF result = <<>>
           THEN /\ codeError' = "Erro ao converter codigo. Verifique a sintaxe JSON."
                /\ UNCHANGED <<flowState, alertMsg, sync, requests>>
           ELSE /\ flowState' = [flowState EXCEPT
                                    !.nodes = result[1].nodes,
                                    !.connections = result[1].connections]
                /\ codeError' = ""
                /\ IF shouldSave /\ ProjectToUse # Null
                   THEN /\ sync' = [kind |-> "reconcile",
                                    items |-> result[1].nodes,
                                    next |-> 1,
                                    existing |-> templates,
                                    project |-> ProjectToUse,
                                    phase |-> "loop",
                                    pending |-> FALSE]
                        /\ requests' = <<>>
                        /\ UNCHANGED alertMsg
                   ELSE /\ alertMsg' =
                               IF shouldSave
                               THEN "Codigo aplicado e sincronizado com o banco de dados!"
                               ELSE "Codigo aplicado apenas ao fluxo visual!"
                        /\ UNCHANGED <<sync, requests>>
    /\ UNCHANGED <<store, nextDbId, selectedProject, templates, showFlowView,
                   calls, simVars, authToken, loadVars>>

\* saveFlowToDatabase, up to its first await
SaveFlowToDatabase ==
    /\ showFlowView
    /\ sync.kind = "none"
    /\ clock <= MaxBatches
    /\ clock' = clock + 1
    /\ IF ~ProjectSelected
       THEN /\ alertMsg' = "Selecione um projeto para salvar o fluxo."
            /\ UNCHANGED <<sync, requests>>
       ELSE /\ sync' = [kind |-> "save",
                        items |-> templates,
                        next |-> 1,
                        existing |-> <<>>,
                        project |-> selectedProject,
                        phase |-> "loop",
                        pending |-> FALSE]
            /\ requests' = <<>>
            /\ UNCHANGED alertMsg
    /\ UNCHANGED <<store, nextDbId, selectedProject, templates, flowState,
                   showFlowView, calls, simVars, authToken, codeError,
                   loadVars>>

\* The batch b is at a node for which convertFlowNodesToTemplates takes the
\* create branch
CreatesTemplate(b) ==
    /\ b.kind = "reconcile"
    /\ b.items[b.next].type \in {"message", "human"}
    /\ ResolveExisting(b.items[b.next], b.existing) = <<>>

\* The Template Store call the batch b issues for its next item: <<>> when
\* the item is skipped or updateAutoTemplateInDatabase /
\* createAutoTemplateInDatabase return or throw before their fetch
BatchCall(b) ==
    LET item == b.items[b.next]
    IN  IF b.kind = "reconcile"
        THEN IF item.type \notin {"message", "human"} THEN <<>>
             ELSE LET existingTemplate == ResolveExisting(item, b.existing)
                  IN  IF existingTemplate # <<>>
                      THEN IF authToken /\ IsNumeric(existingTemplate[1].id)
                           THEN << Request("PUT", existingTemplate[1].id,
                                           << UpdatedTemplate(existingTemplate[1],
                                                              item) >>) >>
                           ELSE <<>>
                      ELSE IF authToken /\ IsNumeric(b.project)
                           THEN << Request("POST", b.project,
                                           << CreatedTemplate(item) >>) >>
                           ELSE <<>>
        ELSE IF IsNumeric(item.id)
             THEN IF authToken THEN << Request("PUT", item.id, <<item>>) >>
                  ELSE <<>>
             ELSE IF authToken /\ ProjectSelected /\ IsNumeric(selectedProject)
                  THEN << Request("POST", selectedProject, <<item>>) >>
                  ELSE <<>>

\* The loop of convertFlowNodesToTemplates or saveFlowToDatabase takes its
\* next item, up to the await of the store call if it issues one
SyncNext ==
    /\ sync.kind # "none"
    /\ ~sync.pending
    /\ sync.phase = "loop"
    /\ sync.next <= Len(sync.items)
    /\ LET call == BatchCall(sync)
       IN  IF call # <<>>
           THEN /\ requests' = Append(requests, call[1])
                /\ sync' = [sync EXCEPT !.pending = TRUE]
                /\ UNCHANGED alertMsg
           ELSE /\ UNCHANGED requests
                /\ IF sync.kind = "save" /\ ~IsNumeric(sync.items[sync.next].id)
                   THEN /\ sync' = NoBatch
                        /\ alertMsg' = "Erro ao salvar fluxo. Tente novamente."
                   ELSE /\ sync' = [sync EXCEPT !.next = @ + 1]
                        /\ alertMsg' = IF CreatesTemplate(sync)
                                       THEN "Erro ao criar template"
                                       ELSE alertMsg
    /\ UNCHANGED <<flowVars, simVars, authToken, codeError, loadVars>>

\* The response to the pending store call arrives and the batch runs on to
\* its next await; shouldReload is the answer to the confirm() of
\* handleAuthError, after which the page is reloaded
SyncResponse(status, shouldReload) ==
    /\ sync.pending
    /\ shouldReload => status = "401"
    /\ LET req == requests[Len(requests)]
       IN  /\ (status = "ok" /\ req.method = "POST") => nextDbId <= Len(DbIds)
           /\ requests' = [requests EXCEPT ![Len(requests)].status = status]
           /\ authToken' = HandleAuthError(status)
           /\ store' = IF status # "ok" THEN store
                       ELSE IF req.method = "PUT" THEN StoreWith(store, req.body[1])
                       ELSE IF req.method = "POST"
                       THEN Append(store, [req.body[1] EXCEPT
                                              !.id = <<DbIds[nextDbId]>>])
                       ELSE store
           /\ nextDbId' = IF status = "ok" /\ req.method = "POST"
                          THEN nextDbId + 1 ELSE nextDbId
           /\ templates' = IF status = "ok" /\ req.method = "GET"
                           THEN store ELSE templates
           /\ flowState' = IF status = "ok" /\ req.method = "GET"
                           THEN RebuildFlow(showFlowView, templates', flowState)
                           ELSE flowState
           /\ IF status = "401" /\ shouldReload
              THEN /\ sync' = NoBatch
                   /\ UNCHANGED alertMsg
              ELSE IF req.method = "GET"
              THEN /\ sync' = NoBatch
                   /\ alertMsg' = "Codigo aplicado e sincronizado com o banco de dados!"
              ELSE IF status = "ok"
              THEN /\ sync' = [sync EXCEPT !.next = @ + 1, !.pending = FALSE]
                   /\ UNCHANGED alertMsg
              ELSE IF sync.kind = "save"
              THEN /\ sync' = NoBatch
                   /\ alertMsg' = "Erro ao salvar fluxo. Tente novamente."
              ELSE /\ sync' = [sync EXCEPT !.next = @ + 1, !.pending = FALSE]
                   /\ alertMsg' = IF req.method = "POST"
                                  THEN "Erro ao criar template"
                                  ELSE alertMsg
    /\ UNCHANGED <<selectedProject, showFlowView, calls, clock, simVars,
                   codeError, loadVars>>

\* The loop is over: convertFlowNodesToTemplates reloads the templates
\* (loadProjectTemplates, up to its fetch), saveFlowToDatabase reports
SyncFinish ==
    /\ sync.kind # "none"
    /\ ~sync.pending
    /\ sync.phase = "loop"
    /\ sync.next > Len(sync.items)
    /\ IF sync.kind = "reconcile" /\ IsNumeric(sync.project) /\ authToken
       THEN /\ requests' = Append(requests, Request("GET", sync.project, <<>>))
            /\ sync' = [sync EXCEPT !.phase = "reload", !.pending = TRUE]
            /\ UNCHANGED alertMsg
       ELSE /\ sync' = NoBatch
            /\ alertMsg' = IF sync.kind = "save"
                           THEN "Fluxo salvo com sucesso!"
                           ELSE "Codigo aplicado e sincronizado com o banco de dados!"
            /\ UNCHANGED requests
    /\ UNCHANGED <<flowVars, simVars, authToken, codeError, loadVars>>

\* Flattening: the template convertFlowNodesToTemplates derives from a
\* message or human node, under the store id the node id carries
FlattenNode(node) ==
    [CreatedTemplate(node) EXCEPT !.id = StripTemplatePrefix(node.id)]

FlattenNodes(nodes) ==
    LET kept == Filter(nodes, [i \in 1..Len(nodes) |->
                                  nodes[i].type \in {"message", "human"}])
    IN  [i \in 1..Len(kept) |-> FlattenNode(kept[i])]

\* Templates the round trip is explored with: besides those of the flow
\* editor, the operator option, a menu template saved with an empty response
\* and a template no rule classifies
TplOperador ==
    AutoTemplate(<<"4">>, << <<"3">>, <<"o","p","e","r","a","d","o","r">> >>,
                 <<"o","p">>, FALSE)
TplSilent ==
    AutoTemplate(<<"5">>, << <<"M","e","n","u">> >>, <<>>, TRUE)
TplOther ==
    AutoTemplate(<<"6">>, << <<"x","y","z">> >>, <<"?">>, TRUE)

\* A menu option whose second trigger names a city placeholder
TplOptionCidade ==
    AutoTemplate(<<"7">>, << <<"1">>, TokenCidade \o <<"X">> >>, <<"c">>, TRUE)

RoundTripPool ==
    {TplWelcome, TplComprar, TplCidade, TplOperador, TplSilent, TplOther,
     TplOptionCidade}

---------------------------------------------------------------------------
(* Loading the projects on mount *)

Project(id, name, isDefault) == [id |-> id, name |-> name, is_default |-> isDefault]

BusProjectName == "Vendas de Passagem de Onibus"

\* A project the user already has
LoadedProject == Project(<<"1">>, "Atendimento", TRUE)

\* Position of the loader: pc names the await it is suspended at ("mount"
\* before its first run, "reload" before the run that follows the creation
\* of the default project, "done" when it has returned); message is the
\* index of the bus message being created
Loader(pc, message) == [pc |-> pc, message |-> message]

LoaderDone == Loader("done", 0)

\* Outcomes of a fetch: the statuses of a response, or the promise rejects
LoadStatuses == Statuses \cup {"error"}

\* busMessages of createDefaultBusProject (the long response texts are
\* abbreviated to their first words)
BusMessages ==
    << AutoTemplate(Null,
                    << <<"o","i">>, <<"o","l","á">>, <<"m","e","n","u">>,
                       <<"d","i","a">>, <<"t","a","r","d","e">>,
                       <<"n","o","i","t","e">>, <<"b","o","m"," ","d","i","a">>,
                       <<"b","o","a"," ","t","a","r","d","e">>,
                       <<"b","o","a"," ","n","o","i","t","e">> >>,
                    <<"Ola! ">> \o NamePlaceholder \o <<" Bem-vindo">>, TRUE),
       AutoTemplate(Null,
                    << <<"1">>, <<"c","o","m","p","r","a","r">>,
                       <<"p","a","s","s","a","g","e","m">>,
                       <<"b","i","l","h","e","t","e">> >>,
                    <<"COMPRAR PASSAGEM">>, TRUE),
       AutoTemplate(Null,
                    << <<"2">>, <<"h","o","r","á","r","i","o","s">>,
                       <<"h","o","r","a","r","i","o">>, <<"h","o","r","a">> >>,
                    <<"HORARIOS DE SAIDA">>, TRUE),
       AutoTemplate(Null,
                    << <<"3">>, <<"o","p","e","r","a","d","o","r">>,
                       <<"a","t","e","n","d","e","n","t","e">>,
                       <<"h","u","m","a","n","o">>, <<"p","e","s","s","o","a">> >>,
                    <<"FALAR COM OPERADOR">>, TRUE),
       AutoTemplate(Null, << TokenCidadeDisponivel >>,
                    <<"Temos passagens">>, TRUE),
       AutoTemplate(Null, << TokenCidadeNaoDisponivel >>,
                    <<"Nao temos passagens">>, TRUE) >>

\* loadProjectsFromDatabase is called (on mount, or by itself after
\* createDefaultBusProject), up to its fetch of the project list
LoadProjectsFromDatabase ==
    /\ loader.pc \in {"mount", "reload"}
    /\ loader' = IF authToken THEN Loader("projects", 0) ELSE LoaderDone
    /\ UNCHANGED <<flowVars, simVars, alertMsg, syncVars, projects,
                   templateProjects, defaultProjectId>>

\* The project list arrives. An empty list starts createDefaultBusProject,
\* up to its fetch of the list; a list with a default project starts
\* loadProjectTemplates, up to its fetch. After a 401 no token is left, with
\* or without the page reload that may follow.
ProjectsResponse(status) ==
    /\ loader.pc = "projects"
    /\ authToken' = HandleAuthError(status)
    /\ IF status # "ok"
       THEN /\ loader' = LoaderDone
            /\ UNCHANGED <<templateProjects, defaultProjectId>>
       ELSE IF projects = <<>>
       THEN /\ loader' = Loader("check", 0)
            /\ UNCHANGED <<templateProjects, defaultProjectId>>
       ELSE LET defaultProject ==
                    FindFirst(projects,
                              [i \in 1..Len(projects) |-> projects[i].is_default])
            IN  /\ templateProjects' = [i \in 1..Len(projects) |-> projects[i].id]
                /\ IF defaultProject # <<>>
                   THEN /\ defaultProjectId' = defaultProject[1].id
                        /\ loader' = Loader("templates", 0)
                   ELSE /\ loader' = LoaderDone
                        /\ UNCHANGED defaultProjectId
    /\ UNCHANGED <<flowVars, simVars, alertMsg, sync, requests, codeError,
                   projects>>

\* createDefaultBusProject: the list it fetched to look for the bus project
\* arrives; it returns when the project exists or the fetch rejects, and
\* posts the project otherwise
ExistingCheckResponse(status) ==
    /\ loader.pc = "check"
    /\ loader' =
           IF \/ status = "error"
              \/ /\ status = "ok"
                 /\ \E i \in 1..Len(projects) : projects[i].name = BusProjectName
           THEN Loader("reload", 0)
           ELSE Loader("create", 0)
    /\ UNCHANGED <<flowVars, simVars, alertMsg, syncVars, projects,
                   templateProjects, defaultProjectId>>

\* createDefaultBusProject: the answer to the POST of the project arrives;
\* on success the first bus message is posted, otherwise the function
\* returns and its caller loads the projects again
CreateProjectResponse(status) ==
    /\ loader.pc = "create"
    /\ IF status = "ok"
       THEN /\ Len(projects) < Len(DbIds)
            /\ projects' = Append(projects,
                                  Project(<<DbIds[Len(projects) + 1]>>,
                                          BusProjectName, TRUE))
            /\ loader' = Loader("message", 1)
       ELSE /\ loader' = Loader("reload", 0)
            /\ UNCHANGED projects
    /\ UNCHANGED <<flowVars, simVars, alertMsg, syncVars, templateProjects,
                   defaultProjectId>>

\* createDefaultBusProject: the answer to the POST of a bus message arrives;
\* a response that is not ok is passed over, a rejected fetch ends the loop
MessageResponse(status) ==
    /\ loader.pc = "message"
    /\ IF status = "ok"
       THEN /\ nextDbId <= Len(DbIds)
            /\ store' = Append(store, [BusMessages[loader.message] EXCEPT
                                          !.id = <<DbIds[nextDbId]>>])
            /\ nextDbId' = nextDbId + 1
       ELSE UNCHANGED <<store, nextDbId>>
    /\ loader' = IF status # "error" /\ loader.message < Len(BusMessages)
                 THEN Loader("message", loader.message + 1)
                 ELSE Loader("reload", 0)
    /\ UNCHANGED <<selectedProject, templates, flowState, showFlowView, calls,
                   clock, simVars, alertMsg, syncVars, projects,
                   templateProjects, defaultProjectId>>

\* loadProjectTemplates: the messages of the default project arrive, and the
\* rebuild effect follows
TemplatesResponse(status) ==
    /\ loader.pc = "templates"
    /\ authToken' = HandleAuthError(status)
    /\ templates' = IF status = "ok" THEN store ELSE templates
    /\ flowState' = RebuildFlow(showFlowView, templates', flowState)
    /\ loader' = LoaderDone
    /\ UNCHANGED <<store, nextDbId, selectedProject, showFlowView, calls, clock,
                   simVars, alertMsg, sync, requests, codeError, projects,
                   templateProjects, defaultProjectId>>

---------------------------------------------------------------------------
(* Chat simulator *)

GreetingText == <<"[greeting]">>     \* 'Olá! Bem-vindo ao nosso atendimento. ...'
FallbackText == <<"[fallback]">>     \* 'Desculpe, não entendi sua mensagem. ...'

ChatMessage(type, content, nodeId) ==
    [type |-> type, content |-> content, nodeId |-> nodeId]

\* useState<SimulationState>({ isActive: false, currentNodeId: null, ... })
InitialSimulationState ==
    [isActive |-> FALSE, currentNodeId |-> Null, chatHistory |-> <<>>,
     awaitingInput |-> FALSE]

\* The suggestion chips rendered under the chat input
Suggestions == { <<"o","i">>, <<"m","e","n","u">>, <<"1">>, <<"2">>, <<"3">> }

\* Texts typed into the chat input
TypedInputs == { <<" ","O","I">> }

\* template.trigger.some(trigger =>
\*     userInput.toLowerCase().includes(trigger.toLowerCase()))
TriggerMatches(template, text) ==
    \E i \in 1..Len(template.trigger) :
        Includes(ToLowerCase(text), ToLowerCase(template.trigger[i]))

\* Mutation of MatchingTemplate: compares without lower-casing
MatchingTemplateCaseSensitive(text) ==
    FindFirst(templates,
              [i \in 1..Len(templates) |->
                  /\ templates[i].active
                  /\ \E k \in 1..Len(templates[i].trigger) :
                         Includes(text, templates[i].trigger[k])])

\* currentTemplates.find(template => template.active && template.trigger.some(...))
MatchingTemplate(text) ==
    FindFirst(templates,
              [i \in 1..Len(templates) |->
                  templates[i].active /\ TriggerMatches(templates[i], text)])

\* The callback given to setTimeout closes over matchingTemplate.  The field
\* stopped is bookkeeping of the model only: it records that
\* stopChatSimulation ran after the timer was set; no code reads it.
Timer(matchingTemplate) ==
    [matchingTemplate |-> matchingTemplate, stopped |-> FALSE]

\* What makes the text input, the send button and the chips usable:
\* the simulator is rendered and nothing is disabled
InputEnabled == showChatSimulator /\ simulationState.awaitingInput

\* Mutation of StartChatSimulation: keeps the previous transcript
StartChatSimulationKeepsHistory ==
    /\ ~showChatSimulator
    /\ Len(templates) > 0
    /\ LET startNode == FindFirst(flowState.nodes,
                                  [i \in 1..Len(flowState.nodes) |->
                                      flowState.nodes[i].type = "start"])
       IN  IF startNode = <<>>
           THEN /\ alertMsg' = "Nenhum no de inicio encontrado no fluxo!"
                /\ UNCHANGED simVars
           ELSE /\ simulationState' =
                       [isActive |-> TRUE,
                        currentNodeId |-> startNode[1].id,
                        chatHistory |->
                            Append(simulationState.chatHistory,
                                   ChatMessage("bot", GreetingText, <<>>)),
                        awaitingInput |-> TRUE]
                /\ showChatSimulator' = TRUE
                /\ UNCHANGED <<userInput, timers, alertMsg>>
    /\ UNCHANGED flowVars
    /\ UNCHANGED <<syncVars, loadVars>>

\* The "Simular Conversa" button: disabled while the template list is empty,
\* and covered by the simulator overlay while that is shown.
StartChatSimulation ==
    /\ ~showChatSimulator
    /\ Len(templates) > 0
    /\ LET startNode == FindFirst(flowState.nodes,
                                  [i \in 1..Len(flowState.nodes) |->
                                      flowState.nodes[i].type = "start"])
       IN  IF startNode = <<>>
           THEN /\ alertMsg' = "Nenhum no de inicio encontrado no fluxo!"
                /\ UNCHANGED simVars
           ELSE /\ simulationState' =
                       [isActive |-> TRUE,
                        currentNodeId |-> startNode[1].id,
                        chatHistory |-> <<ChatMessage("bot", GreetingText, <<>>)>>,
                        awaitingInput |-> TRUE]
                /\ showChatSimulator' = TRUE
                /\ UNCHANGED <<userInput, timers, alertMsg>>
    /\ UNCHANGED flowVars
    /\ UNCHANGED <<syncVars, loadVars>>

\* The close button of the simulator.  The pending timers are not cleared.
StopChatSimulation ==
    /\ showChatSimulator
    /\ simulationState' = InitialSimulationState
    /\ showChatSimulator' = FALSE
    /\ userInput' = <<>>
    /\ timers' = [i \in 1..Len(timers) |-> [timers[i] EXCEPT !.stopped = TRUE]]
    /\ UNCHANGED <<flowVars, alertMsg>>
    /\ UNCHANGED <<syncVars, loadVars>>

\* onChange of the chat input
TypeInput(text) ==
    /\ InputEnabled
    /\ text # userInput
    /\ userInput' = text
    /\ UNCHANGED <<flowVars, simulationState, showChatSimulator, timers, alertMsg>>
    /\ UNCHANGED <<syncVars, loadVars>>

\* The send button or the Enter key
SendUserMessage ==
    /\ InputEnabled
    /\ Trim(userInput) # <<>>
    /\ simulationState.isActive
    /\ Len(simulationState.chatHistory) + Len(timers) + 2 <= MaxChat
    /\ simulationState' =
           [simulationState EXCEPT
               !.chatHistory = Append(@, ChatMessage("user", Trim(userInput), <<>>)),
               !.awaitingInput = FALSE]
    /\ timers' = Append(timers, Timer(MatchingTemplate(userInput)))
    /\ userInput' = <<>>
    /\ UNCHANGED <<flowVars, showChatSimulator, alertMsg>>
    /\ UNCHANGED <<syncVars, loadVars>>

\* onClick of a suggestion chip
SuggestionClick(suggestion) ==
    /\ InputEnabled
    /\ Len(simulationState.chatHistory) + Len(timers) + 2 <= MaxChat
    /\ simulationState' =
           [simulationState EXCEPT
               !.chatHistory = Append(@, ChatMessage("user", suggestion, <<>>)),
               !.awaitingInput = FALSE]
    /\ timers' = Append(timers, Timer(MatchingTemplate(suggestion)))
    /\ UNCHANGED <<flowVars, showChatSimulator, userInput, alertMsg>>
    /\ UNCHANGED <<syncVars, loadVars>>

\* The bot message a timer callback builds for a matched template
BotReply(template) ==
    ChatMessage("bot", ReplaceName(template.response), <<template.id>>)

\* Mutation of TimerFires: the fallback reply resets the position pointer
TimerFiresFallbackResetsPointer ==
    /\ timers # <<>>
    /\ LET matchingTemplate == Head(timers).matchingTemplate
       IN  simulationState' =
               IF matchingTemplate # <<>>
               THEN [simulationState EXCEPT
                        !.chatHistory = Append(@, BotReply(matchingTemplate[1])),
                        !.awaitingInput = TRUE,
                        !.currentNodeId = <<"template">> \o matchingTemplate[1].id]
               ELSE [simulationState EXCEPT
                        !.chatHistory =
                            Append(@, ChatMessage("bot", FallbackText, <<>>)),
                        !.awaitingInput = TRUE,
                        !.currentNodeId = Null]
    /\ timers' = Tail(timers)
    /\ UNCHANGED <<flowVars, showChatSimulator, userInput, alertMsg>>
    /\ UNCHANGED <<syncVars, loadVars>>

\* The setTimeout callback set by sendUserMessage or by a suggestion chip runs
TimerFires ==
    /\ timers # <<>>
    /\ LET matchingTemplate == Head(timers).matchingTemplate
       IN  simulationState' =
               IF matchingTemplate # <<>>
               THEN [simulationState EXCEPT
                        !.chatHistory = Append(@, BotReply(matchingTemplate[1])),
                        !.awaitingInput = TRUE,
                        !.currentNodeId = <<"template">> \o matchingTemplate[1].id]
               ELSE [simulationState EXCEPT
                        !.chatHistory =
                            Append(@, ChatMessage("bot", FallbackText, <<>>)),
                        !.awaitingInput = TRUE]
    /\ timers' = Tail(timers)
    /\ UNCHANGED <<flowVars, showChatSimulator, userInput, alertMsg>>
    /\ UNCHANGED <<syncVars, loadVars>>

SimInit ==
    /\ templates \in ListsUpTo(SimTemplatePool, MaxTemplates)
    /\ store = templates
    /\ nextDbId = FirstFreeDbId
    /\ selectedProject = <<"1">>
    /\ showFlowView \in BOOLEAN
    \* the flow editor was never opened (no nodes), or shows the synthesis
    /\ flowState = RebuildFlow(showFlowView, templates, InitialFlowState)
    /\ calls = <<>>
    /\ clock = 1
    /\ simulationState = InitialSimulationState
    /\ showChatSimulator = FALSE
    /\ userInput = <<>>
    /\ timers = <<>>
    /\ alertMsg = ""
    /\ authToken = TRUE
    /\ sync = NoBatch
    /\ requests = <<>>
    /\ codeError = ""
    /\ projects = <<LoadedProject>>
    /\ loader = LoaderDone
    /\ templateProjects = <<LoadedProject.id>>
    /\ defaultProjectId = LoadedProject.id

SimNext ==
    \/ StartChatSimulation
    \/ StopChatSimulation
    \/ \E text \in TypedInputs \cup {<<>>} : TypeInput(text)
    \/ SendUserMessage
    \/ \E suggestion \in Suggestions : SuggestionClick(suggestion)
    \/ TimerFires

\* The chat simulator alone
SpecSim == SimInit /\ [][SimNext]_vars

\* setTimeout callbacks always run eventually
SpecSimFair == SpecSim /\ WF_vars(TimerFires)

FlowInit ==
    /\ store \in FlowTemplateLists
    /\ templates = store
    /\ nextDbId = FirstFreeDbId
    /\ selectedProject \in {Null, <<"1">>}
    /\ showFlowView = FALSE
    /\ flowState = InitialFlowState
    /\ calls = <<>>
    /\ clock = 1
    /\ simulationState = InitialSimulationState
    /\ showChatSimulator = FALSE
    /\ userInput = <<>>
    /\ timers = <<>>
    /\ alertMsg = ""
    /\ authToken = TRUE
    /\ sync = NoBatch
    /\ requests = <<>>
    /\ codeError = ""
    /\ projects = <<LoadedProject>>
    /\ loader = LoaderDone
    /\ templateProjects = <<LoadedProject.id>>
    /\ defaultProjectId = LoadedProject.id

FlowNext ==
    \/ ToggleFlowView
    \/ \E type \in PaletteTypes : AddFlowNode(type)
    \/ \E c \in 1..Len(calls) : AddFlowNodeCreated(c)
    \/ \E c \in 1..Len(calls) : AddFlowNodeCreateFails(c)
    \/ \E i \in 1..Len(flowState.nodes) : DeleteFlowNode(i)
    \/ \E c \in 1..Len(calls), reloaded \in BOOLEAN : DeleteFlowNodeDeleted(c, reloaded)
    \/ \E c \in 1..Len(calls) : DeleteFlowNodeFails(c)
    \/ \E code \in FlowCodes : ImportFlowCode(code)

\* The flow editor alone
SpecFlow == FlowInit /\ [][FlowNext]_vars

SyncInit ==
    /\ store \in FlowTemplateLists
    /\ templates = store
    /\ nextDbId = FirstFreeDbId
    /\ selectedProject \in {Null, <<"1">>}
    \* the flow editor is open and shows the synthesis
    /\ showFlowView = TRUE
    /\ flowState = RebuildFlow(showFlowView, templates, InitialFlowState)
    /\ calls = <<>>
    /\ clock = 1
    /\ simulationState = InitialSimulationState
    /\ showChatSimulator = FALSE
    /\ userInput = <<>>
    /\ timers = <<>>
    /\ alertMsg = ""
    /\ authToken = TRUE
    /\ sync = NoBatch
    /\ requests = <<>>
    /\ codeError = ""
    /\ projects = <<LoadedProject>>
    /\ loader = LoaderDone
    /\ templateProjects = <<LoadedProject.id>>
    /\ defaultProjectId = LoadedProject.id

SyncNextStep ==
    \/ \E code \in InvalidCodes : ImportFlowCode(code)
    \/ \E code \in SyncCodes, shouldSave \in BOOLEAN : ApplyCodeChanges(code, shouldSave)
    \/ SaveFlowToDatabase
    \/ AddHumanIntervention
    \/ SyncNext
    \/ \E status \in Statuses, shouldReload \in BOOLEAN : SyncResponse(status, shouldReload)
    \/ SyncFinish

\* The code view, reconciliation and saving
SpecSync == SyncInit /\ [][SyncNextStep]_vars

RoundTripInit ==
    /\ templates \in ListsUpTo(RoundTripPool, MaxTemplates)
    /\ store = templates
    /\ nextDbId = Len(DbIds)
    /\ selectedProject \in {Null, <<"1">>}
    /\ showFlowView = FALSE
    /\ flowState = InitialFlowState
    /\ calls = <<>>
    /\ clock = 1
    /\ simulationState = InitialSimulationState
    /\ showChatSimulator = FALSE
    /\ userInput = <<>>
    /\ timers = <<>>
    /\ alertMsg = ""
    /\ authToken = TRUE
    /\ sync = NoBatch
    /\ requests = <<>>
    /\ codeError = ""
    /\ projects = <<LoadedProject>>
    /\ loader = LoaderDone
    /\ templateProjects = <<LoadedProject.id>>
    /\ defaultProjectId = LoadedProject.id

\* Synthesis alone: the flow view is opened and closed over a template list
SpecRoundTrip == RoundTripInit /\ [][ToggleFlowView]_vars

\* The component mounts: nothing is loaded yet; the user has no project,
\* or one project with its templates
LoadInit ==
    /\ projects \in {<<>>, <<LoadedProject>>,
                     <<Project(<<"1">>, "Atendimento", FALSE)>>}
    /\ store \in IF projects = <<>> THEN {<<>>} ELSE FlowTemplateLists
    /\ nextDbId = FirstFreeDbId
    /\ selectedProject = Null
    /\ templates = <<>>
    /\ showFlowView = FALSE
    /\ flowState = InitialFlowState
    /\ calls = <<>>
    /\ clock = 1
    /\ simulationState = InitialSimulationState
    /\ showChatSimulator = FALSE
    /\ userInput = <<>>
    /\ timers = <<>>
    /\ alertMsg = ""
    /\ authToken \in BOOLEAN
    /\ sync = NoBatch
    /\ requests = <<>>
    /\ codeError = ""
    /\ loader = Loader("mount", 0)
    /\ templateProjects = <<>>
    /\ defaultProjectId = Null

LoadNext ==
    \/ LoadProjectsFromDatabase
    \/ \E status \in LoadStatuses : ProjectsResponse(status)
    \/ \E status \in LoadStatuses : ExistingCheckResponse(status)
    \/ \E status \in LoadStatuses : CreateProjectResponse(status)
    \/ \E status \in LoadStatuses : MessageResponse(status)
    \/ \E status \in LoadStatuses : TemplatesResponse(status)

\* The loading of the projects alone
SpecLoad == LoadInit /\ [][LoadNext]_vars

\* Every fetch is answered or rejected, and the continuation then runs
SpecLoadFair == SpecLoad /\ WF_vars(LoadNext)

---------------------------------------------------------------------------
(* Properties of the chat simulator *)

Last(seq) == seq[Len(seq)]

\* A step that appends a user entry to the transcript
UserEntryAppended ==
    /\ Len(simulationState'.chatHistory) = Len(simulationState.chatHistory) + 1
    /\ Last(simulationState'.chatHistory).type = "user"

\* C1: a bot reply that was pending when stopChatSimulation ran is never
\* applied: when its timer runs, the transcript, awaitingInput and
\* currentNodeId stay as they are, in the stopped session and in a later one.
C1_StoppedReplyNeverApplied ==
    [][(TimerFires /\ Head(timers).stopped)
           => simulationState' = simulationState]_vars

\* C7: a user entry is appended only in AwaitingInput, that is while the
\* simulation is active, awaits input and no reply of the running session is
\* still pending.
C7_SubmitOnlyWhenAwaitingInput ==
    [][UserEntryAppended
           => /\ simulationState.isActive
              /\ simulationState.awaitingInput
              /\ \A i \in 1..Len(timers) : timers[i].stopped]_vars

HasStartNode == \E i \in 1..Len(flowState.nodes) : flowState.nodes[i].type = "start"

\* C8: startChatSimulation on a graph without a start node changes nothing
\* of the simulation and reports the error; on a graph with a start node the
\* simulation is active and awaits input, the transcript is exactly the
\* greeting and the pointer is the id of the (first) start node.
C8_StartChatSimulation ==
    [][StartChatSimulation
           => IF HasStartNode
              THEN /\ simulationState'.isActive
                   /\ simulationState'.awaitingInput
                   /\ simulationState'.chatHistory =
                          << [type |-> "bot", content |-> GreetingText,
                              nodeId |-> <<>>] >>
                   /\ \E i \in 1..Len(flowState.nodes) :
                          /\ flowState.nodes[i].type = "start"
                          /\ \A j \in 1..(i - 1) : flowState.nodes[j].type # "start"
                          /\ simulationState'.currentNodeId = flowState.nodes[i].id
              ELSE /\ simulationState' = simulationState
                   /\ showChatSimulator' = showChatSimulator
                   /\ alertMsg' # ""]_vars

\* A simulation started again while the reply of a stopped session is still
\* pending
C8_Witness ==
    /\ simulationState.isActive
    /\ simulationState.awaitingInput
    /\ Len(simulationState.chatHistory) = 1
    /\ simulationState.currentNodeId = <<"start", "1">>
    /\ timers # <<>>
    /\ Head(timers).stopped

\* Two characters that differ at most in case
SameLetter(c, d) ==
    \/ c = d
    \/ \E i \in 1..Len(UpperLetters) : {c, d} = {UpperLetters[i], LowerLetters[i]}

\* trigger occurs in text, ignoring case
OccursIgnoringCase(trigger, text) ==
    \E p \in 0..(Len(text) - Len(trigger)) :
        \A k \in 1..Len(trigger) : SameLetter(text[p + k], trigger[k])

Eligible(template, text) ==
    /\ template.active
    /\ \E k \in 1..Len(template.trigger) :
           OccursIgnoringCase(template.trigger[k], text)

\* chosen is the first eligible template of the list, or none if there is none
FirstEligible(chosen, text) ==
    \/ /\ chosen = <<>>
       /\ \A i \in 1..Len(templates) : ~Eligible(templates[i], text)
    \/ \E i \in 1..Len(templates) :
           /\ chosen = <<templates[i]>>
           /\ Eligible(templates[i], text)
           /\ \A j \in 1..(i - 1) : ~Eligible(templates[j], text)

\* C9: the template a submit chooses is the first template in list order
\* that is active and has a trigger occurring in the user text ignoring case;
\* none is chosen only when no template is eligible.
C9_FirstActiveMatchWins ==
    [][/\ SendUserMessage => FirstEligible(Last(timers').matchingTemplate, userInput)
       /\ \A suggestion \in Suggestions :
              SuggestionClick(suggestion)
                  => FirstEligible(Last(timers').matchingTemplate, suggestion)]_vars

\* "OI" was submitted against a list whose first template is inactive: the
\* lower-case trigger of the second template was chosen
C9_Witness ==
    /\ templates = <<TplInactive, TplGreeting>>
    /\ simulationState.chatHistory # <<>>
    /\ Last(simulationState.chatHistory) =
           [type |-> "user", content |-> <<"O","I">>, nodeId |-> <<>>]
    /\ timers # <<>>
    /\ Last(timers).matchingTemplate = <<TplGreeting>>

\* The reply text expected for each template of the pool
ExpectedReplyText(template) ==
    CASE template = TplGreeting -> <<"H","i"," ","U","s","u","a","r","i","o">>
      [] template = TplOption ->
             <<"U","s","u","a","r","i","o","U","s","u","a","r","i","o">>
      [] template = TplInactive -> <<"o","f","f">>

ExpectedReply(template) ==
    [type |-> "bot", content |-> ExpectedReplyText(template),
     nodeId |-> <<template.id>>]

\* C10: an accepted submit that matched a template sets one timer; when the
\* timer runs it appends exactly one bot entry, carrying the response with
\* every {name} replaced and the template's id, and the simulation awaits
\* input again; and unless the session is stopped this eventually happens.
C10_MatchedSubmitGetsReply ==
    /\ [][(SendUserMessage \/ \E s \in Suggestions : SuggestionClick(s))
              => Len(timers') = Len(timers) + 1]_vars
    /\ [][(TimerFires /\ Head(timers).matchingTemplate # <<>>)
              => /\ simulationState'.chatHistory =
                        Append(simulationState.chatHistory,
                               ExpectedReply(Head(timers).matchingTemplate[1]))
                 /\ simulationState'.awaitingInput]_vars
    /\ \A template \in {t \in SimTemplatePool : t.active} :
           (/\ simulationState.isActive
            /\ ~simulationState.awaitingInput
            /\ timers # <<>>
            /\ ~Last(timers).stopped
            /\ Last(timers).matchingTemplate = <<template>>)
           ~> (\/ ~simulationState.isActive
               \/ /\ simulationState.awaitingInput
                  /\ \E i \in 1..Len(simulationState.chatHistory) :
                         simulationState.chatHistory[i] = ExpectedReply(template))

\* The reply to a submit that matched the template with two placeholders is
\* in the transcript and the simulation awaits input
C10_Witness ==
    /\ simulationState.isActive
    /\ simulationState.awaitingInput
    /\ Len(simulationState.chatHistory) >= 3
    /\ Last(simulationState.chatHistory) = ExpectedReply(TplOption)

\* No template of the list is active with a trigger occurring in the text
NoneEligible(text) == \A i \in 1..Len(templates) : ~Eligible(templates[i], text)

\* C11: an accepted submit whose text matches no active template sets one
\* timer that captured no template; when the timer runs it appends exactly
\* one bot entry, the fixed fallback text without a template id, leaves the
\* position pointer as it is, and the simulation awaits input again.
C11_UnmatchedSubmitGetsFallback ==
    /\ [][/\ (SendUserMessage /\ NoneEligible(userInput))
              => /\ Len(timers') = Len(timers) + 1
                 /\ Last(timers').matchingTemplate = <<>>
          /\ \A s \in Suggestions :
                 (SuggestionClick(s) /\ NoneEligible(s))
                     => /\ Len(timers') = Len(timers) + 1
                        /\ Last(timers').matchingTemplate = <<>>]_vars
    /\ [][(TimerFires /\ Head(timers).matchingTemplate = <<>>)
              => /\ simulationState'.chatHistory =
                        Append(simulationState.chatHistory,
                               [type |-> "bot", content |-> FallbackText,
                                nodeId |-> <<>>])
                 /\ simulationState'.currentNodeId = simulationState.currentNodeId
                 /\ simulationState'.isActive = simulationState.isActive
                 /\ simulationState'.awaitingInput]_vars

\* "menu" was submitted against templates none of which has a trigger in it:
\* the fallback entry follows the user entry, the pointer is still on the
\* start node and the simulation awaits input
C11_Witness ==
    /\ simulationState.isActive
    /\ simulationState.awaitingInput
    /\ Len(simulationState.chatHistory) = 3
    /\ simulationState.chatHistory[2] =
           [type |-> "user", content |-> <<"m","e","n","u">>, nodeId |-> <<>>]
    /\ simulationState.chatHistory[3] =
           [type |-> "bot", content |-> FallbackText, nodeId |-> <<>>]
    /\ simulationState.currentNodeId = StartNodeId
    /\ timers = <<>>

\* C29: while a simulation is active its position pointer is the id of a
\* node of the graph.
C29_PointerNamesGraphNode ==
    simulationState.isActive
        => simulationState.currentNodeId \in NodeIds(flowState)

---------------------------------------------------------------------------
(* Properties of reconciliation and of the code view *)

\* The node the running batch is at
CurrentItem == sync.items[sync.next]

\* The loop of convertFlowNodesToTemplates handles a message or human node
ReconcilesNode ==
    /\ SyncNext
    /\ sync.kind = "reconcile"
    /\ CurrentItem.type \in {"message", "human"}

\* Template t (with a store id) has the id the node is built on
IdMatches(node, t) ==
    /\ t.id \in {<<DbIds[i]>> : i \in 1..Len(DbIds)}
    /\ node.id \in {t.id, <<"template">> \o t.id}

\* Template t (with a store id) and the node have a trigger in common
TriggerOverlaps(node, t) ==
    /\ t.id \in {<<DbIds[i]>> : i \in 1..Len(DbIds)}
    /\ node.triggers # <<>>
    /\ Range(node.triggers[1]) \cap Range(t.trigger) # {}

\* The step issues a store call
IssuesCall == requests' # requests

\* C12: when the pass handles a message/human node whose id matches no
\* persisted template of the list but whose triggers overlap those of some
\* persisted template, it issues no create: the only call it issues is an
\* update of a persisted template sharing a trigger with the node, and it
\* does issue it while the session holds its token.
C12_TriggerOverlapUpdates ==
    [][(/\ ReconcilesNode
        /\ \A i \in 1..Len(sync.existing) : ~IdMatches(CurrentItem, sync.existing[i])
        /\ \E i \in 1..Len(sync.existing) :
               TriggerOverlaps(CurrentItem, sync.existing[i]))
           => /\ authToken => IssuesCall
              /\ IssuesCall
                     => /\ Len(requests') = Len(requests) + 1
                        /\ Last(requests').method = "PUT"
                        /\ \E i \in 1..Len(sync.existing) :
                               /\ TriggerOverlaps(CurrentItem, sync.existing[i])
                               /\ Last(requests').id = sync.existing[i].id]_vars

\* The node message-a with trigger '1' was reconciled against a list with
\* template 2: one update of template 2 was issued and the store applied it
C12_Witness ==
    /\ sync.kind = "reconcile"
    /\ sync.items = CodeOverlap.nodes[1]
    /\ sync.next = 3
    /\ Len(requests) = 1
    /\ requests[1].method = "PUT"
    /\ requests[1].id = <<"2">>
    /\ requests[1].status = "ok"
    /\ \E i \in 1..Len(store) :
           store[i] = [id |-> <<"2">>, trigger |-> << <<"1">> >>,
                       response |-> <<"b","u","y">>, active |-> TRUE]

\* C13: when a persisted template's id equals the node id with 'template-'
\* stripped, the update the pass issues for the node goes to that template.
C13_IdMatchPreferred ==
    [][\A i \in 1..Len(sync.existing) :
           (ReconcilesNode /\ IdMatches(CurrentItem, sync.existing[i]) /\ IssuesCall)
               => /\ Last(requests').method = "PUT"
                  /\ Last(requests').id = sync.existing[i].id]_vars

\* C14: within one pass no two creates are issued for nodes that share a
\* trigger: the second node is resolved to the template the first created.
C14_CreatedTemplateVisible ==
    \A i, j \in 1..Len(requests) :
        (i < j /\ requests[i].method = "POST" /\ requests[j].method = "POST"
               /\ requests[i].status = "ok")
            => Range(requests[i].body[1].trigger)
                   \cap Range(requests[j].body[1].trigger) = {}

\* C17: in a batch no Template Store call is issued after a call that was
\* answered with 401.
C17_NoCallAfter401 ==
    \A i \in 1..(Len(requests) - 1) : requests[i].status # "401"

\* The first of two nodes to create was answered with 401, the page was not
\* reloaded, and the pass went over the second node without a call
C17_Witness ==
    /\ sync.kind = "reconcile"
    /\ sync.items = CodeSharedNew.nodes[1]
    /\ sync.next = 3
    /\ Len(requests) = 1
    /\ requests[1].method = "POST"
    /\ requests[1].status = "401"
    /\ ~authToken

\* C18: importing or applying a document that does not parse, or whose
\* nodes or connections are missing or no array, reports an error and leaves
\* nodes and connections of the graph as they are; nothing is sent to the
\* store.
C18_InvalidCodeRejected ==
    [][\A code \in InvalidCodes :
           /\ ImportFlowCode(code)
                  => /\ flowState' = flowState
                     /\ alertMsg' = "Erro ao importar fluxo."
           /\ \A shouldSave \in BOOLEAN :
                  ApplyCodeChanges(code, shouldSave)
                      => /\ flowState' = flowState
                         /\ codeError' # ""
                         /\ sync' = sync
                         /\ requests' = requests]_vars

\* An invalid document was applied and another one imported while the graph
\* shows the synthesis of the templates
C18_Witness ==
    /\ codeError # ""
    /\ alertMsg = "Erro ao importar fluxo."
    /\ templates # <<>>
    /\ flowState.nodes = ConvertTemplatesToFlow(templates).nodes
    /\ flowState.connections = ConvertTemplatesToFlow(templates).connections

\* C22: the pass issues a create or an update only for a message or human
\* node whose triggers list and whose response are both non-empty; every
\* other node causes no store call.
C22_WritesOnlyForCompleteNodes ==
    [][(SyncNext /\ sync.kind = "reconcile" /\ IssuesCall)
           => /\ CurrentItem.type \in {"message", "human"}
              /\ CurrentItem.triggers # <<>>
              /\ CurrentItem.triggers[1] # <<>>
              /\ CurrentItem.response # <<>>]_vars

\* C23: when the store has answered the create issued for an unresolved
\* node, the id it assigned is bound onto the node: the graph holds a node
\* whose id is 'template-' followed by the new id, which a later pass
\* resolves by id.
C23_CreatedIdBoundToNode ==
    [][(/\ sync.kind = "reconcile"
        /\ sync.pending
        /\ Last(requests).method = "POST"
        /\ SyncResponse("ok", FALSE))
           => <<"template", DbIds[nextDbId]>> \in NodeIds(flowState')]_vars

\* C26: no create or update sent to the store carries an empty trigger
\* list.
C26_NoEmptyTriggerSent ==
    \A i \in 1..Len(requests) :
        requests[i].method \in {"POST", "PUT"}
            => requests[i].body[1].trigger # <<>>

\* C30: in one pass each persisted template is the target of at most one
\* update.
C30_OneUpdatePerTemplate ==
    sync.kind = "reconcile"
        => \A i, j \in 1..Len(requests) :
               (i < j /\ requests[i].method = "PUT" /\ requests[j].method = "PUT")
                   => requests[i].id # requests[j].id

---------------------------------------------------------------------------
(* Properties of the synthesis *)

\* The graph shown is the synthesis of the template list
ShowsSynthesis ==
    /\ showFlowView
    /\ templates # <<>>
    /\ flowState.nodes = ConvertTemplatesToFlow(templates).nodes
    /\ flowState.connections = ConvertTemplatesToFlow(templates).connections

\* The (triggers, response, active) tuples of the message and human nodes
MessageTuples(nodes) ==
    {<<nodes[i].triggers, nodes[i].response, nodes[i].active>> :
        i \in {i \in 1..Len(nodes) : nodes[i].type \in {"message", "human"}}}

\* C19: flattening the message/human nodes of a synthesized graph and
\* synthesizing again gives message/human nodes with the same set of
\* (triggers, response, active) tuples.
C19_RoundTripStable ==
    ShowsSynthesis
        => MessageTuples(ConvertTemplatesToFlow(FlattenNodes(flowState.nodes)).nodes)
               = MessageTuples(flowState.nodes)

\* C20: in a synthesized graph every menu-option node has an incoming
\* connection from the welcome node if there is one, and from the start node
\* if no template is classified as welcome.
C20_MenuOptionsConnected ==
    ShowsSynthesis
        => \A i \in 1..Len(templates) :
               IsMenuOption(templates[i])
                   => \E k \in 1..Len(flowState.connections) :
                          /\ flowState.connections[k].target =
                                 TemplateNodeId(templates[i])
                          /\ flowState.connections[k].source =
                                 IF \E j \in 1..Len(templates) : IsGreeting(templates[j])
                                 THEN TemplateNodeId(
                                          templates[CHOOSE j \in 1..Len(templates) :
                                              /\ IsGreeting(templates[j])
                                              /\ \A h \in 1..(j - 1) :
                                                     ~IsGreeting(templates[h])])
                                 ELSE StartNodeId

\* C21: the synthesis classes are disjoint: for a template list with
\* distinct ids every template yields at most one node of the synthesized
\* graph, so no two nodes have the same id.
C21_ClassesDisjoint ==
    (/\ ShowsSynthesis
     /\ \A i, j \in 1..Len(templates) :
            i # j => templates[i].id # templates[j].id)
        => \A i \in 1..Len(templates) :
               Cardinality({k \in 1..Len(flowState.nodes) :
                               flowState.nodes[k].id = TemplateNodeId(templates[i])})
                   <= 1

---------------------------------------------------------------------------
(* Properties of the flow graph *)

\* No connection of the graph has the id as its source or target
NoConnectionAt(flow, id) ==
    \A k \in 1..Len(flow.connections) :
        flow.connections[k].source # id /\ flow.connections[k].target # id

\* C2: when deleteFlowNode(id) has finished, no connection has id as source
\* or target unless id is again the id of a node; and when the deletion
\* succeeded (the store deleted the template, or no store call was needed)
\* no connection at all has id as source or target.
C2_DeleteLeavesNoConnection ==
    [][/\ \A c \in 1..Len(calls) :
              /\ (\E reloaded \in BOOLEAN : DeleteFlowNodeDeleted(c, reloaded))
                     => NoConnectionAt(flowState', calls[c].node.id)
              /\ DeleteFlowNodeFails(c)
                     => \/ calls[c].node.id \in NodeIds(flowState')
                        \/ NoConnectionAt(flowState', calls[c].node.id)
       /\ \A i \in 1..Len(flowState.nodes) :
              (DeleteFlowNode(i) /\ ~DeleteCallsStore(flowState.nodes[i].id))
                  => NoConnectionAt(flowState', flowState.nodes[i].id)]_vars

\* C3: the outgoing list of every node holds exactly the targets of the
\* connections whose source is the node.
C3_OutgoingMatchesConnections ==
    \A i \in 1..Len(flowState.nodes) :
        Range(flowState.nodes[i].connections) =
            {flowState.connections[k].target :
                k \in {k \in 1..Len(flowState.connections) :
                          flowState.connections[k].source = flowState.nodes[i].id}}

\* C4: source and target of every connection are ids of nodes of the graph.
C4_ConnectionsResolve ==
    \A k \in 1..Len(flowState.connections) :
        /\ flowState.connections[k].source \in NodeIds(flowState)
        /\ flowState.connections[k].target \in NodeIds(flowState)

\* C5: a graph that is not empty has exactly one node of kind start.
C5_ExactlyOneStart ==
    flowState.nodes # <<>>
        => Cardinality({i \in 1..Len(flowState.nodes) :
                           flowState.nodes[i].type = "start"}) = 1

\* C6: no two nodes of the graph have the same id.
C6_NodeIdsDistinct ==
    \A i, j \in 1..Len(flowState.nodes) :
        i # j => flowState.nodes[i].id # flowState.nodes[j].id

\* C15: while the store delete of a node is pending the node is still in
\* the graph; it leaves the graph only when the call has succeeded.
C15_NodeStaysUntilDeleted ==
    \A c \in 1..Len(calls) :
        calls[c].kind = "delete" => calls[c].node.id \in NodeIds(flowState)

\* C16: when the store delete fails, the graph after deleteFlowNode has the
\* nodes, the connections and the selection it had before.
C16_FailedDeleteRestoresGraph ==
    [][\A c \in 1..Len(calls) :
           DeleteFlowNodeFails(c)
               => /\ Range(flowState'.nodes) = Range(calls[c].before.nodes)
                  /\ Range(flowState'.connections) =
                         Range(calls[c].before.connections)
                  /\ flowState'.selectedNode = calls[c].before.selectedNode]_vars

\* C24: when the store create issued by addFlowNode for a new message node
\* fails, the graph stays as it was: no node is added.
C24_FailedCreateAddsNoNode ==
    [][\A c \in 1..Len(calls) :
           AddFlowNodeCreateFails(c)
               => /\ flowState'.nodes = flowState.nodes
                  /\ flowState'.connections = flowState.connections
                  /\ flowState'.selectedNode = flowState.selectedNode]_vars

\* C25: while the flow view is open, after every change of the template
\* list, also a change to the empty list, the graph is the synthesis of the
\* list.
C25_GraphFollowsTemplates ==
    [][(showFlowView /\ templates' # templates)
           => /\ flowState'.nodes = ConvertTemplatesToFlow(templates').nodes
              /\ flowState'.connections =
                     ConvertTemplatesToFlow(templates').connections]_vars

\* C27: deleteFlowNode calls the store only for the template the node was
\* built from: every store delete it issues is for a node 'template-<id>'
\* and names that id; start-1, end-1 and nodes with a generated id cause
\* no store delete.
C27_DeleteOnlyForTemplateNodes ==
    \A c \in 1..Len(calls) :
        calls[c].kind = "delete"
            => calls[c].node.id = <<"template">> \o calls[c].templateId

---------------------------------------------------------------------------
(* Properties of the loading of the projects *)

\* C28: loadProjectsFromDatabase always terminates: it does not create the
\* default project and load the list again without bound.
C28_LoaderTerminates == <>(loader.pc = "done")

=============================================================================
